---- MODULE Spec2Model ----
\* A model of the rbroadlink client library: the byte codecs of the wire
\* protocol (envelope checksum, command envelope, authentication and remote
\* sub-codec) and the device orchestrator that drives them over UDP
\* (discovery, authentication, send_code, learn_ir, learn_rf).
EXTENDS Integers, Sequences, FiniteSets, TLC

VARIABLES
    pc,         \* position of the caller inside the public operation in progress
    op,         \* the public operation in progress, or the last one that ended
    result,     \* how the last operation ended: none / ok / err / panic
    errkind,    \* the error a finished operation returned (or the panic message)
    ret,        \* the bytes a successful learn_ir / learn_rf returned (the packed
                \* message, for connect_to_network)
    pending,    \* the device create_device_from_packet is building (NoDevice if none)
    results,    \* the vector send_and_receive_many is filling inside Device::list
    devs,       \* the devices the caller holds (returned by from_ip / list)
    cur,        \* index in devs of the device the current operation acts on
    attempt,    \* iteration counter of the polling loop in progress
    sent,       \* the commands the operation in progress has put on the wire, in
                \* order, a command repeated in a row listed once
    run,        \* how many times in a row the last command of sent has been sent
    got,        \* what RemoteDevice::send_command returned for the last command sent
    lastFrame,  \* the last datagram put on the wire
    lastKey,    \* the key the last received command reply was decrypted with
    lastPlain,  \* the cleartext the sender framed in the last well-formed command
                \* reply (empty when none arrived, or it was damaged, of the wrong
                \* size or under another key)
    lastReply,  \* the last discovery datagram handed to create_device_from_packet
    issued,     \* per device built: the pair the authentication response carried
                \* when it was constructed
    rounds,     \* number of datagrams Device::list has received so far
    nops,       \* number of operations the caller has started on its devices
    cin,        \* input of the pure codec under check
    cout,       \* output of the pure codec under check
    socks       \* per concurrent transport call: its socket (the port it is bound
                \* to, the datagrams queued on it), how many times and to which
                \* port it has sent its message, and how far the call has got

vars == <<pc, op, result, errkind, ret, pending, results, devs, cur, attempt,
          sent, run, got, lastFrame, lastKey, lastPlain, lastReply, issued, rounds,
          nops, cin, cout, socks>>

-----------------------------------------------------------------------------
\* Results of fallible code: Ok(v), Err(e), and an abort (panic) of the process.

Ok(v) == [t |-> "ok", v |-> v]

Err(e) == [t |-> "err", e |-> e]

Panic(e) == [t |-> "panic", e |-> e]

-----------------------------------------------------------------------------
\* Bytes and fixed-width integers.

Byte == 0..255

U16 == 65536

LE16(n) == <<n % 256, (n \div 256) % 256>>

\* A u32 is held as its four little-endian bytes, as it lies on the wire.
U32Zero == <<0, 0, 0, 0>>

FromLE16(b, off) == b[off + 1] + 256 * b[off + 2]

Zeros(n) == [i \in 1..n |-> 0]

\* bytes[from .. to) with 0-based offsets, as a Rust slice (the caller checks the range)
Slice(b, from, to) == [i \in 1..(to - from) |-> b[from + i]]

\* the sum of b[lo..hi] (1-based, inclusive)
RECURSIVE SumRange(_, _, _)
SumRange(b, lo, hi) ==
    IF lo > hi THEN 0
    ELSE IF lo = hi THEN b[lo]
    ELSE LET mid == (lo + hi) \div 2
         IN  SumRange(b, lo, mid) + SumRange(b, mid + 1, hi)

SumBytes(b) == SumRange(b, 1, Len(b))

\* checksum returning the u32 accumulator as it is
checksum_untruncated(data) == 48815 + SumBytes(data)

\* network::util::checksum: 0xBEAF plus every byte, truncated to u16 (the u32
\* accumulator cannot overflow on a datagram: 8092 bytes of 0xFF stay below 2^32)
checksum(data) == (48815 + SumBytes(data)) % U16

\* network::util::reverse_mac
reverse_mac(mac) == [i \in 1..6 |-> mac[6 - i + 1]]

-----------------------------------------------------------------------------
\* constants.rs

INITIAL_KEY == <<9, 118, 40, 52, 63, 233, 158, 35, 118, 92, 21, 19, 172, 207, 139, 2>>

INITIAL_VECTOR == <<86, 46, 23, 153, 109, 9, 61, 40, 221, 179, 186, 105, 90, 46, 111, 88>>

-----------------------------------------------------------------------------
\* The crypto envelope: Cbc<Aes128, ZeroPadding>.  The AES block permutation is
\* stood in for by a keyed byte-wise bijection (addition of the key modulo 256);
\* chaining, padding and unpadding are those of the block mode.

BlockSize == 16

\* ZeroPadding::pad: fill with 0x00 up to the block boundary, nothing when aligned
PadZeros(p) == p \o Zeros((BlockSize - (Len(p) % BlockSize)) % BlockSize)

\* ZeroPadding::unpad: drop every trailing 0x00
StripZeros(p) ==
    LET nonzero == {i \in 1..Len(p) : p[i] # 0}
    IN  IF nonzero = {} THEN <<>>
        ELSE SubSeq(p, 1, CHOOSE i \in nonzero : \A j \in nonzero : j <= i)

KeyAt(key, i) == key[((i - 1) % BlockSize) + 1]

\* CBC encryption of whole blocks: c_j = E_k(p_j + c_(j-1)), c_0 = IV
RECURSIVE CbcEncrypt(_, _, _)
CbcEncrypt(key, prev, p) ==
    IF p = <<>> THEN <<>>
    ELSE LET blk == [i \in 1..BlockSize |-> (p[i] + prev[i] + key[i]) % 256]
         IN  blk \o CbcEncrypt(key, blk, SubSeq(p, BlockSize + 1, Len(p)))

\* cipher.encrypt_vec(payload)
Encrypt(key, payload) == CbcEncrypt(key, INITIAL_VECTOR, PadZeros(payload))

\* CBC decryption of whole blocks: p_j = D_k(c_j) - c_(j-1)
CbcDecrypt(key, c) ==
    [i \in 1..Len(c) |->
        LET prev == IF i <= BlockSize THEN INITIAL_VECTOR[i] ELSE c[i - BlockSize]
        IN  (c[i] + 512 - prev - KeyAt(key, i)) % 256]

\* cipher.decrypt_vec(bytes): an error unless the input is whole blocks, else the
\* cleartext with its trailing zero bytes removed
Decrypt(key, c) ==
    IF Len(c) % BlockSize # 0 THEN Err("BlockModeError")
    ELSE Ok(StripZeros(CbcDecrypt(key, c)))

-----------------------------------------------------------------------------
\* network/command.rs: the command envelope.

HeaderSize == 56

MagicHeader == <<90, 165, 170, 85, 90, 165, 170, 85>>

AuthPacketType == 101

DataPacketType == 106

\* CommandMessage::with_count
with_count(packet_type, count, device_model_code, mac, id) ==
    [ magic_header     |-> MagicHeader,
      device_type      |-> device_model_code,
      packet_type      |-> packet_type,
      count            |-> IF count >= 32768 THEN count ELSE count + 32768,
      mac_reversed     |-> reverse_mac(mac),
      id               |-> id,
      checksum         |-> 0,
      payload_checksum |-> 0 ]

\* #[derive(PackedStruct)] pack of CommandMessage: little-endian fields at their
\* byte offsets, zero elsewhere
HeaderPack(h) ==
    [i \in 1..HeaderSize |->
        LET o == i - 1
        IN  CASE o \in 0..7   -> h.magic_header[o + 1]
              [] o \in 32..33 -> LE16(h.checksum)[o - 31]
              [] o \in 36..37 -> LE16(h.device_type)[o - 35]
              [] o \in 38..39 -> LE16(h.packet_type)[o - 37]
              [] o \in 40..41 -> LE16(h.count)[o - 39]
              [] o \in 42..47 -> h.mac_reversed[o - 41]
              [] o \in 48..51 -> h.id[o - 47]
              [] o \in 52..53 -> LE16(h.payload_checksum)[o - 51]
              [] OTHER        -> 0]

\* #[derive(PackedStruct)] unpack of CommandMessage from the first 0x38 bytes
HeaderUnpack(b) ==
    [ magic_header     |-> Slice(b, 0, 8),
      device_type      |-> FromLE16(b, 36),
      packet_type      |-> FromLE16(b, 38),
      count            |-> FromLE16(b, 40),
      mac_reversed     |-> Slice(b, 42, 48),
      id               |-> Slice(b, 48, 52),
      checksum         |-> FromLE16(b, 32),
      payload_checksum |-> FromLE16(b, 52) ]

\* pack_with_payload returning the first packing, the envelope checksum not
\* yet saved in the header
pack_with_payload_first_pass(h, payload, key) ==
    LET h1 == [h EXCEPT !.payload_checksum = checksum(payload)]
    IN  HeaderPack(h1) \o Encrypt(key, payload)

\* CommandMessage::pack_with_payload
pack_with_payload(h, payload, key) ==
    LET h1        == [h EXCEPT !.payload_checksum = checksum(payload)]
        encrypted == Encrypt(key, payload)
        appended  == HeaderPack(h1) \o encrypted
        h2        == [h1 EXCEPT !.checksum = checksum(appended)]
    IN  HeaderPack(h2) \o encrypted

\* CommandMessage::unpack_with_payload
unpack_with_payload(bytes, key) ==
    IF Len(bytes) < HeaderSize THEN Err("ShortReply")
    ELSE LET command_header == HeaderUnpack(bytes)
             zeroed         == [bytes EXCEPT ![33] = 0, ![34] = 0]
             real_checksum  == checksum(zeroed)
         IN  IF command_header.checksum # real_checksum THEN Err("ChecksumMismatch")
             ELSE LET decrypted == Decrypt(key, SubSeq(zeroed, HeaderSize + 1, Len(zeroed)))
                  IN  IF decrypted.t = "err"
                      THEN Panic("Could not decrypt command payload!")
                      ELSE decrypted

-----------------------------------------------------------------------------
\* network/remote_data.rs: the remote sub-codec.

SendCode == 2

StartLearningIR == 3

GetCode == 4

SweepRfFrequencies == 25

CheckFrequency == 26

StartLearningRF == 27

StopRfSweep == 30

RemoteDataCommand ==
    {SendCode, StartLearningIR, StartLearningRF, GetCode, SweepRfFrequencies,
     StopRfSweep, CheckFrequency}

RemoteHeaderSize == 6

\* RemoteDataMessage::pack_with_payload
RemotePack(command, payload) ==
    IF Len(payload) >= U16 THEN Err("Payload is too long!")
    ELSE IF Len(payload) + 4 >= U16 THEN Err("Could not add the start buffer!")
    ELSE Ok(LE16(Len(payload) + 4) \o <<command, 0, 0, 0>> \o payload)

\* RemoteDataMessage::unpack_with_payload.  info.payload_length + 1 is a u16
\* addition: at 0xFFFF it aborts (overflow check) or wraps to 0, and the slice
\* 6..0 aborts as well; the slice aborts whenever its end is before its start
\* or past the buffer.
RemoteUnpack(bytes) ==
    IF Len(bytes) < RemoteHeaderSize THEN Ok(<<>>)
    ELSE IF bytes[3] \notin RemoteDataCommand
         THEN Err("Could not unpack remote data response!")
    ELSE LET payload_length == FromLE16(bytes, 0) + 1
         IN  IF payload_length >= U16 THEN Panic("attempt to add with overflow")
             ELSE IF payload_length < RemoteHeaderSize \/ payload_length > Len(bytes)
                  THEN Panic("slice index out of range")
             ELSE Ok(Slice(bytes, RemoteHeaderSize, payload_length))

-----------------------------------------------------------------------------
\* network/authentication.rs

AuthMessageSize == 80

AuthResponseSize == 20

NameFieldSize == 32

\* AuthenticationMessage::new keeping a NUL after the name: truncation to 0x1F bytes
AuthenticationMessageTerminated(name) ==
    LET max == IF Len(name) > NameFieldSize - 1 THEN NameFieldSize - 1 ELSE Len(name)
    IN  [ id     |-> [i \in 1..16 |-> 49],
          magic0 |-> 1,
          magic1 |-> 1,
          name   |-> [i \in 1..NameFieldSize |-> IF i <= max THEN name[i] ELSE 0] ]

\* AuthenticationMessage::new: the name truncated to 0x20 bytes and NUL-padded
AuthenticationMessage(name) ==
    LET max == IF Len(name) > NameFieldSize THEN NameFieldSize ELSE Len(name)
    IN  [ id     |-> [i \in 1..16 |-> 49],
          magic0 |-> 1,
          magic1 |-> 1,
          name   |-> [i \in 1..NameFieldSize |-> IF i <= max THEN name[i] ELSE 0] ]

\* #[derive(PackedStruct)] pack of AuthenticationMessage (layout of the fixture
\* in authentication_packs_correctly)
AuthPack(m) ==
    [i \in 1..AuthMessageSize |->
        LET o == i - 1
        IN  CASE o \in 4..19  -> m.id[o - 3]
              [] o = 30       -> m.magic0
              [] o = 45       -> m.magic1
              [] o \in 48..79 -> m.name[o - 47]
              [] OTHER        -> 0]

\* AuthenticationResponse::unpack_from_slice: the slice must be exactly 0x14 bytes
AuthResponseUnpack(b) ==
    IF Len(b) # AuthResponseSize THEN Err("Could not unpack auth response!")
    ELSE Ok([id |-> Slice(b, 0, 4), key |-> Slice(b, 4, 20)])

-----------------------------------------------------------------------------
\* remote.rs, hvac.rs, device_info.rs: devices.

REMOTE_CODES == {21003, 21011, 21016, 24614, 24964, 24994, 25755, 25916}

HVAC_CODES == {20010}

RemoteFriendlyModel(code) ==
    CASE code = 21016 -> "RM4C Pro"
      [] code = 24964 -> "RMC4 Pro"
      [] code \in REMOTE_CODES \ {21016, 24964} -> "RM4 Pro"
      [] OTHER -> "Unknown"

NoDevice == [variant |-> "None"]

\* RemoteDevice::new (wrapped in Device::Remote by create_device_from_packet)
RemoteDeviceNew(name, addr, response) ==
    [ variant |-> "Remote",
      info    |-> [ address        |-> addr,
                    mac            |-> reverse_mac(response.mac),
                    model_code     |-> response.model_code,
                    friendly_type  |-> "Remote",
                    friendly_model |-> RemoteFriendlyModel(response.model_code),
                    name           |-> name,
                    auth_id        |-> U32Zero,
                    key            |-> INITIAL_KEY,
                    is_locked      |-> response.is_locked ] ]

\* a save_auth_pair that stores the key and leaves the id
save_auth_pair_key_only(dev, id, key) == [dev EXCEPT !.info.key = key]

\* DeviceTrait::save_auth_pair
save_auth_pair(dev, id, key) == [dev EXCEPT !.info.auth_id = id, !.info.key = key]

-----------------------------------------------------------------------------
\* network/util.rs: the UDP transport.  A receive either times out or yields a
\* datagram.

Timeout == [arrived |-> FALSE, bytes |-> <<>>]

Datagram(b) == [arrived |-> TRUE, bytes |-> b]

\* cb(...).expect("Could not map result!") in send_and_receive_one / _many
MapResult(r) == IF r.t = "err" THEN Panic(r.e) ELSE r

\* CommandMessage::new draws the counter with gen_range(0x8000..0xFFFF)
CountRange == 32768..65534

\* a send_command that decrypts every reply with the initial key
DecryptKeyInitial(info) == INITIAL_KEY

\* the key Device::send_command hands to unpack_with_payload for the reply
DecryptKey(info) == info.key

\* Device::send_command, up to the datagram it sends
CommandFrame(info, packet_type, payload, count) ==
    pack_with_payload(
        with_count(packet_type, count, info.model_code, info.mac, info.auth_id),
        payload, info.key)

\* Device::send_command, from the receive on: send_and_receive_one with the
\* closure that unpacks the reply with info.key
CommandReply(info, reply) ==
    IF ~reply.arrived THEN Err("Timeout")
    ELSE MapResult(unpack_with_payload(reply.bytes, DecryptKey(info)))

\* Device::authenticate, the payload it sends
AuthPayload(dev) == AuthPack(AuthenticationMessage(dev.info.name))

\* an authenticate that hands the device back whatever came of the exchange
AuthenticateReplyLax(dev, reply) ==
    LET response == CommandReply(dev.info, reply)
    IN  IF response.t # "ok" THEN Ok(dev)
        ELSE LET auth == AuthResponseUnpack(response.v)
             IN  IF auth.t = "err" THEN Ok(dev)
                 ELSE Ok(save_auth_pair(dev, auth.v.id, auth.v.key))

\* Device::authenticate, from the reply of its command on: the device with the
\* returned pair saved, or the error
AuthenticateReply(dev, reply) ==
    LET response == CommandReply(dev.info, reply)
    IN  IF response.t = "err" THEN Err("Could not send authentication command!")
        ELSE IF response.t = "panic" THEN response
        ELSE LET auth == AuthResponseUnpack(response.v)
             IN  IF auth.t = "err" THEN auth
                 ELSE Ok(save_auth_pair(dev, auth.v.id, auth.v.key))

\* from_utf8 on the 62 name bytes (the names of the model are ASCII, or hold
\* 0xFF, which no UTF-8 text holds)
Utf8Ok(name) == \A i \in 1..Len(name) : name[i] < 128

DiscoveryReplySize == 128

\* create_device_from_packet without the check of the reply's length
CreateDeviceAnyLength(reply) ==
    IF ~reply.from_v4 THEN Err("Device has an IPv6 Address!")
    ELSE IF ~Utf8Ok(reply.name) THEN Err("Could not decode device name!")
    ELSE IF reply.model_code \in REMOTE_CODES
         THEN Ok(RemoteDeviceNew(reply.name, reply.addr, reply))
    ELSE Err("Unknown device")

\* create_device_from_packet, up to device.authenticate()
CreateDevice(reply) ==
    IF reply.bytes_received # DiscoveryReplySize
    THEN Err("Received invalid response! Not enough data.")
    ELSE IF ~reply.from_v4 THEN Err("Device has an IPv6 Address!")
    ELSE IF ~Utf8Ok(reply.name) THEN Err("Could not decode device name!")
    ELSE IF reply.model_code \in REMOTE_CODES
         THEN Ok(RemoteDeviceNew(reply.name, reply.addr, reply))
    ELSE Err("Unknown device")

\* create_device_from_packet, from the result of device.authenticate() on
CreateDeviceFinish(authres) ==
    IF authres.t = "err" THEN Err("Could not authenticate device!") ELSE authres

\* RemoteDevice::send_command, up to the datagram it sends
RemoteCommandFrame(info, payload, command, count) ==
    LET packed == RemotePack(command, payload)
    IN  IF packed.t = "err" THEN packed
        ELSE Ok(CommandFrame(info, DataPacketType, packed.v, count))

\* RemoteDevice::send_command, from the receive on
RemoteCommandReply(info, reply) ==
    LET response == CommandReply(info, reply)
    IN  IF response.t = "err" THEN Err("Could not send code inside of the command!")
        ELSE IF response.t = "panic" THEN response
        ELSE RemoteUnpack(response.v)


-----------------------------------------------------------------------------
\* The environment: the devices on the network and the datagrams they (or
\* anything else on the network) may send back.

MaxReplies == 2

MaxOps == 1

KeyA == <<161, 162, 163, 164, 165, 166, 167, 168, 169, 170, 171, 172, 173, 174, 175, 176>>

KeyZ == <<177, 178, 179, 180, 181, 182, 183, 184, 185, 186, 187, 188, 189, 190, 191, 0>>

IdA == <<4, 3, 2, 1>>

\* the pairs an authentication response may carry: a fresh id with a fresh key,
\* the id 0 with a fresh key, a key whose last byte is 0x00
AuthPairs ==
    { [id |-> IdA, key |-> KeyA],
      [id |-> U32Zero, key |-> KeyA],
      [id |-> IdA, key |-> KeyZ] }

\* a key other than the one the receiver decrypts with
WrongKey(info) == IF info.key = KeyA THEN INITIAL_KEY ELSE KeyA

CountSamples == {32768, 65534}

NamePad(n) == n \o Zeros(62 - Len(n))

PhysDevices ==
    { [addr |-> <<192, 168, 0, 10>>, mac |-> <<6, 5, 4, 3, 2, 1>>,
       model_code |-> 25755, name |-> NamePad(<<82, 77, 52>>)],
      [addr |-> <<192, 168, 0, 12>>, mac |-> <<18, 17, 16, 15, 14, 13>>,
       model_code |-> 20010, name |-> NamePad(<<65, 67>>)],
      [addr |-> <<192, 168, 0, 13>>, mac |-> <<24, 23, 22, 21, 20, 19>>,
       model_code |-> 4660, name |-> NamePad(<<88>>)] }

DiscoveryReply(d, n, v4, name) ==
    [ seen |-> TRUE, bytes_received |-> n, from_v4 |-> v4, addr |-> d.addr,
      model_code |-> d.model_code, mac |-> d.mac, name |-> name, is_locked |-> FALSE ]

NoReply ==
    [ seen |-> FALSE, bytes_received |-> 0, from_v4 |-> TRUE, addr |-> <<0, 0, 0, 0>>,
      model_code |-> 0, mac |-> Zeros(6), name |-> <<>>, is_locked |-> FALSE ]

\* what may arrive on the discovery socket: the 128-byte replies of the devices,
\* and replies that are too short, come from an IPv6 endpoint or carry a name
\* that is not UTF-8
DiscoveryReplies ==
    { DiscoveryReply(d, DiscoveryReplySize, TRUE, d.name) : d \in PhysDevices }
    \cup { DiscoveryReply(d, 48, TRUE, d.name) : d \in PhysDevices }
    \cup { DiscoveryReply(d, DiscoveryReplySize, FALSE, d.name) :
             d \in {x \in PhysDevices : x.model_code = 25755} }
    \cup { DiscoveryReply(d, DiscoveryReplySize, TRUE, NamePad(<<255>>)) :
             d \in {x \in PhysDevices : x.model_code = 25755} }

\* a reply frame as a device builds it: the same envelope, its cleartext
\* encrypted with key ek
ReplyFrame(info, packet_type, plain, ek) ==
    pack_with_payload(
        with_count(packet_type, 32768, info.model_code, info.mac, info.auth_id),
        plain, ek)

\* a frame whose checksum field is recomputed over its bytes as they are
Resum(b) ==
    LET zeroed == [b EXCEPT ![33] = 0, ![34] = 0]
        c      == LE16(checksum(zeroed))
    IN  [zeroed EXCEPT ![33] = c[1], ![34] = c[2]]

\* damaged replies: cut short, checksum off by one, a ciphertext that is not
\* whole blocks
Damaged(frame) ==
    { Datagram(SubSeq(frame, 1, 10)),
      Datagram([frame EXCEPT ![33] = (frame[33] + 1) % 256]),
      Datagram(Resum(frame \o <<1>>)) }

AuthPlain(id, key) == id \o key

\* what may come back for an authentication command besides a reply that
\* carries a pair under the right key: nothing, a cleartext of the wrong size,
\* a reply under another key, a damaged frame
AuthReplies(info) ==
    { Timeout,
      Datagram(ReplyFrame(info, 1001, <<1, 2, 3>>, info.key)),
      Datagram(ReplyFrame(info, 1001, AuthPlain(IdA, KeyA), WrongKey(info))) }
    \cup Damaged(ReplyFrame(info, 1001, AuthPlain(IdA, KeyA), info.key))

RemotePlain(pl, command, body) == LE16(pl) \o <<command, 0, 0, 0>> \o body

\* the cleartexts a data reply may carry: bare acknowledgements, bodies of one
\* and two bytes, a length field that announces more than was sent or less than
\* the header, a command byte outside the enumeration
DataPlains(command) ==
    { RemotePlain(4, command, <<>>),
      RemotePlain(5, command, <<1>>),
      RemotePlain(5, command, <<0>>),
      RemotePlain(6, command, <<1, 7>>),
      RemotePlain(6, command, <<0, 7>>),
      RemotePlain(32, command, <<7>>),
      RemotePlain(4, command, <<9>>),
      RemotePlain(6, 99, <<1, 7>>) }

\* a datagram together with the cleartext its sender framed in it
Carrying(reply, plain) ==
    [arrived |-> reply.arrived, bytes |-> reply.bytes, plain |-> plain]

\* what may come back for a data command: nothing, a reply under another key,
\* the well-formed replies, damaged frames
DataReplies(info, command) ==
    { Carrying(Timeout, <<>>),
      Carrying(Datagram(ReplyFrame(info, 1006, RemotePlain(6, command, <<1, 7>>),
                                   WrongKey(info))), <<>>) }
    \cup { Carrying(Datagram(ReplyFrame(info, 1006, p, info.key)), p) :
              p \in DataPlains(command) }
    \cup { Carrying(d, <<>>) :
              d \in Damaged(ReplyFrame(info, 1006, RemotePlain(6, command, <<1, 7>>),
                                       info.key)) }

-----------------------------------------------------------------------------
\* The caller and the operations of the library.

NoFrame == [kind |-> "none", bytes |-> <<>>]

DiscoveryFrame == [kind |-> "discovery", bytes |-> <<>>]

CmdFrame(b) == [kind |-> "command", bytes |-> b]

NoPair == [id |-> U32Zero, key |-> <<>>]

\* no codec call under check
NoCall == [t |-> "none"]

CodecIdle == cin = NoCall /\ cout = NoCall

\* the caller before any operation: no device, nothing on the wire
Fresh ==
    /\ pc = "idle"
    /\ op = "none"
    /\ result = "none"
    /\ errkind = ""
    /\ ret = <<>>
    /\ pending = NoDevice
    /\ results = <<>>
    /\ devs = <<>>
    /\ cur = 0
    /\ attempt = 0
    /\ sent = <<>>
    /\ run = 0
    /\ got = Ok(<<>>)
    /\ lastFrame = NoFrame
    /\ lastKey = <<>>
    /\ lastPlain = <<>>
    /\ lastReply = NoReply
    /\ issued = <<>>
    /\ rounds = 0
    /\ nops = 0
    /\ socks = <<>>

Init == Fresh /\ CodecIdle

\* an operation returns Ok or Err to its caller
Return(r, e) == pc' = "idle" /\ result' = r /\ errkind' = e

\* an operation aborts the process (a panic)
Abort(e) == pc' = "aborted" /\ result' = "panic" /\ errkind' = e

\* the start of Device::from_ip or Device::list: the discovery datagram goes out
Discover(name) ==
    /\ pc = "idle" /\ op = "none"
    /\ op' = name
    /\ pc' = "discover"
    /\ sent' = <<"Discovery">>
    /\ lastFrame' = DiscoveryFrame
    /\ UNCHANGED <<result, errkind, ret, pending, results, devs, cur, attempt, run, got,
                   lastKey, lastPlain, lastReply, issued, rounds, nops, cin, cout, socks>>

\* Device::from_ip, up to the receive on the discovery socket
FromIp == Discover("from_ip")

\* Device::list, up to the first receive on the discovery socket
List == Discover("list")

\* recv_from on the discovery socket times out: send_and_receive_one returns
\* the Timeout error, send_and_receive_many returns what it has collected
DiscoverTimeout ==
    /\ pc = "discover"
    /\ IF op = "from_ip"
       THEN /\ Return("err", "Timeout")
            /\ UNCHANGED devs
       ELSE /\ Return("ok", "")
            /\ devs' = results
    /\ results' = <<>>
    /\ UNCHANGED <<op, ret, pending, cur, attempt, sent, run, got, lastFrame, lastKey,
                   lastPlain, lastReply, issued, rounds, nops, cin, cout, socks>>

\* a datagram arrives on the discovery socket: the callback runs
\* create_device_from_packet, which validates and classifies the reply, builds
\* the device and sends its authentication command
DiscoverRecv ==
    /\ pc = "discover"
    /\ op = "list" => rounds < MaxReplies
    /\ \E reply \in DiscoveryReplies :
        LET c == MapResult(CreateDevice(reply))
        IN  /\ lastReply' = reply
            /\ rounds' = rounds + 1
            /\ IF c.t = "panic"
               THEN /\ Abort(c.e)
                    /\ UNCHANGED <<pending, sent, lastFrame>>
               ELSE /\ pending' = c.v
                    /\ sent' = Append(sent, "Auth")
                    /\ pc' = "auth"
                    /\ UNCHANGED <<result, errkind>>
                    /\ \E count \in CountSamples :
                        lastFrame' = CmdFrame(CommandFrame(c.v.info, AuthPacketType,
                                                           AuthPayload(c.v), count))
    /\ UNCHANGED <<op, ret, results, devs, cur, attempt, run, got, lastKey, lastPlain,
                   issued, nops, cin, cout, socks>>

\* the reply to the authentication command of the device under construction
\* (or the timeout): authenticate finishes, create_device_from_packet returns
\* the device or the error, and the transport unwraps the callback's result
AuthOutcome(reply, carried) ==
    LET a == MapResult(CreateDeviceFinish(AuthenticateReply(pending, reply)))
    IN  /\ lastKey' = IF reply.arrived THEN DecryptKey(pending.info) ELSE lastKey
        /\ lastPlain' = IF carried = NoPair THEN <<>>
                        ELSE AuthPlain(carried.id, carried.key)
        /\ pending' = NoDevice
        /\ IF a.t = "ok"
           THEN /\ issued' = Append(issued, carried)
                /\ IF op = "from_ip"
                   THEN /\ devs' = <<a.v>>
                        /\ Return("ok", "")
                        /\ UNCHANGED results
                   ELSE /\ results' = Append(results, a.v)
                        /\ pc' = "discover"
                        /\ UNCHANGED <<devs, result, errkind>>
           ELSE /\ Abort(a.e)
                /\ UNCHANGED <<issued, devs, results>>
        /\ UNCHANGED <<op, ret, cur, attempt, sent, run, got, lastFrame, lastReply,
                       rounds, nops, cin, cout, socks>>

AuthRecv ==
    /\ pc = "auth"
    /\ \/ \E p \in AuthPairs :
            AuthOutcome(Datagram(ReplyFrame(pending.info, 1001, AuthPlain(p.id, p.key),
                                            pending.info.key)), p)
       \/ \E reply \in AuthReplies(pending.info) : AuthOutcome(reply, NoPair)

Construct == FromIp \/ List \/ DiscoverTimeout \/ DiscoverRecv \/ AuthRecv

\* remote.rs: the polling budget of learn_ir and learn_rf
Attempts == 10

Codes == { <<38, 0, 5>> }

\* the start of a public operation on device d of the caller
Begin(name, d) ==
    /\ pc = "idle" /\ nops < MaxOps
    /\ op' = name
    /\ cur' = d
    /\ nops' = nops + 1
    /\ UNCHANGED <<pending, results, devs, lastReply, issued, rounds, cin, cout, socks>>

\* a later step of the operation in progress
Step(p) ==
    /\ pc = p
    /\ UNCHANGED <<op, cur, pending, results, devs, lastReply, issued, rounds, nops,
                   cin, cout, socks>>

\* the operation goes on to its next command
Continue(p) == pc' = p /\ result' = "none" /\ errkind' = ""

\* what one RemoteDevice::send_command may return for command, over the
\* datagrams that may come back (and whether one came back at all)
Outcomes(info, command) ==
    { [arrived |-> reply.arrived, plain |-> reply.plain,
       r |-> RemoteCommandReply(info, reply)] :
        reply \in DataReplies(info, command) }

\* one RemoteDevice::send_command: the frame goes on the wire after the
\* commands in prior, and o.r is what the call returns (the payloads of the
\* model never exceed the 16-bit length field, so packing succeeds)
Exchange(info, command, payload, o, prior) ==
    /\ sent' = IF prior # <<>> /\ prior[Len(prior)] = command THEN prior
               ELSE Append(prior, command)
    /\ run' = IF prior # <<>> /\ prior[Len(prior)] = command THEN run + 1 ELSE 1
    /\ got' = o.r
    /\ lastPlain' = o.plain
    /\ lastKey' = IF o.arrived THEN DecryptKey(info) ELSE <<>>
    /\ \E count \in CountSamples :
        lastFrame' = CmdFrame(RemoteCommandFrame(info, payload, command, count).v)

\* how a single command's result ends or continues the operation: Ok goes on
\* at next, Err is returned to the caller as e (map_err and ?), a panic aborts
Propagate(r, next, e) ==
    CASE r.t = "ok"    -> Continue(next)
      [] r.t = "err"   -> Return("err", e)
      [] r.t = "panic" -> Abort(r.e)

\* RemoteDevice::send_code
SendCodeOp ==
    \E d \in 1..Len(devs), code \in Codes :
        /\ Begin("send_code", d)
        /\ UNCHANGED <<ret, attempt>>
        /\ \E o \in Outcomes(devs[d].info, SendCode) :
            /\ Exchange(devs[d].info, SendCode, code, o, <<>>)
            /\ IF o.r.t = "ok" THEN Return("ok", "")
               ELSE Propagate(o.r, "idle", "Could not send IR code to device!")

\* RemoteDevice::learn_ir, its StartLearningIR command
LearnIrStart ==
    \E d \in 1..Len(devs) :
        /\ Begin("learn_ir", d)
        /\ ret' = <<>> /\ attempt' = 0
        /\ \E o \in Outcomes(devs[d].info, StartLearningIR) :
            /\ Exchange(devs[d].info, StartLearningIR, <<>>, o, <<>>)
            /\ Propagate(o.r, "ir_poll", "Could not enter learning mode!")

\* the test `code.len() != 0` of the polling loops
CodeLearned(code) == Len(code) # 0

\* one iteration of a GetCode polling loop (learn_ir, and the second loop of
\* learn_rf): a non-empty code is returned; an empty one uses up an attempt,
\* and after the last attempt the loop is left: learn_ir returns its timeout
\* error, learn_rf goes on at exhausted
PollCode(here, exhausted) ==
    /\ Step(here)
    /\ \E o \in Outcomes(devs[cur].info, GetCode) :
        /\ Exchange(devs[cur].info, GetCode, <<>>, o, sent)
        /\ IF o.r.t = "ok" /\ CodeLearned(o.r.v)
           THEN /\ Return("ok", "")
                /\ ret' = o.r.v
                /\ UNCHANGED attempt
           ELSE IF o.r.t = "ok"
           THEN /\ attempt' = attempt + 1
                /\ UNCHANGED ret
                /\ IF attempt + 1 < Attempts THEN Continue(here)
                   ELSE IF exhausted = "idle"
                   THEN Return("err", "Could not learn IR code! Operation timed out.")
                   ELSE Continue(exhausted)
           ELSE /\ Propagate(o.r, here, "Could not check code status of device!")
                /\ UNCHANGED <<ret, attempt>>

\* RemoteDevice::learn_ir, its polling loop and the timeout after it
LearnIrPoll == PollCode("ir_poll", "idle")

\* RemoteDevice::learn_rf, its SweepRfFrequencies command
LearnRfStart ==
    \E d \in 1..Len(devs) :
        /\ Begin("learn_rf", d)
        /\ ret' = <<>> /\ attempt' = 0
        /\ \E o \in Outcomes(devs[d].info, SweepRfFrequencies) :
            /\ Exchange(devs[d].info, SweepRfFrequencies, <<>>, o, <<>>)
            /\ Propagate(o.r, "rf_check", "Could not start sweeping frequencies!")

\* a test that takes byte 0 equal to 0 for the lock
FrequencyLockedOnZero(frequency) == frequency[1] = 0

\* the test `frequency[0] == 1` of learn_rf on a non-empty reply
FrequencyLocked(frequency) == frequency[1] = 1

\* RemoteDevice::learn_rf, one iteration of its CheckFrequency loop: indexing
\* an empty reply aborts; a locked reply leaves the loop with frequency_found;
\* the last attempt leaves it without
LearnRfCheck ==
    /\ Step("rf_check")
    /\ UNCHANGED ret
    /\ \E o \in Outcomes(devs[cur].info, CheckFrequency) :
        /\ Exchange(devs[cur].info, CheckFrequency, <<>>, o, sent)
        /\ IF o.r.t = "ok" /\ Len(o.r.v) = 0
           THEN /\ Abort("index out of bounds")
                /\ UNCHANGED attempt
           ELSE IF o.r.t = "ok" /\ FrequencyLocked(o.r.v)
           THEN /\ Continue("rf_enter")
                /\ attempt' = 0
           ELSE IF o.r.t = "ok"
           THEN IF attempt + 1 < Attempts
                THEN /\ Continue("rf_check")
                     /\ attempt' = attempt + 1
                ELSE /\ Continue("rf_stop_nofreq")
                     /\ attempt' = 0
           ELSE /\ Propagate(o.r, "rf_check", "Could not check code status of device!")
                /\ UNCHANGED attempt

\* a learn_rf that returns its error without cancelling the sweep
StopSweepSilent(here, e) ==
    /\ Step(here)
    /\ Return("err", e)
    /\ UNCHANGED <<ret, attempt, sent, run, got, lastFrame, lastKey, lastPlain>>

\* a StopRfSweep of learn_rf followed by `return Err(e)`
StopSweep(here, e) ==
    /\ Step(here)
    /\ UNCHANGED <<ret, attempt>>
    /\ \E o \in Outcomes(devs[cur].info, StopRfSweep) :
        /\ Exchange(devs[cur].info, StopRfSweep, <<>>, o, sent)
        /\ IF o.r.t = "ok" THEN Return("err", e)
           ELSE Propagate(o.r, here, "Could not cancel RF sweep!")

\* RemoteDevice::learn_rf, no frequency found: StopRfSweep, then the error
LearnRfStopNoFrequency == StopSweep("rf_stop_nofreq", "Could not determine frequency!")

\* RemoteDevice::learn_rf, its StartLearningRF command
LearnRfEnter ==
    /\ Step("rf_enter")
    /\ UNCHANGED <<ret, attempt>>
    /\ \E o \in Outcomes(devs[cur].info, StartLearningRF) :
        /\ Exchange(devs[cur].info, StartLearningRF, <<>>, o, sent)
        /\ Propagate(o.r, "rf_code", "Could not enter learning mode!")

\* RemoteDevice::learn_rf, its GetCode polling loop
LearnRfPoll == PollCode("rf_code", "rf_stop_timeout")

\* RemoteDevice::learn_rf, no code learned: StopRfSweep, then the error
LearnRfStopTimeout ==
    StopSweep("rf_stop_timeout", "Could not learn RF code! Operation timed out.")

Operate ==
    \/ SendCodeOp
    \/ LearnIrStart \/ LearnIrPoll
    \/ LearnRfStart \/ LearnRfCheck \/ LearnRfStopNoFrequency
    \/ LearnRfEnter \/ LearnRfPoll \/ LearnRfStopTimeout

\* the documented lifecycle: from_ip or list, then operations on the devices
Next == Construct \/ Operate

Spec == Init /\ [][Next]_vars

\* Device::authenticate called by the caller on a device it holds
Reauthenticate ==
    \E d \in 1..Len(devs) :
        /\ Begin("authenticate", d)
        /\ pc' = "reauth"
        /\ result' = "none" /\ errkind' = ""
        /\ sent' = <<"Auth">>
        /\ run' = 1
        /\ got' = Ok(<<>>)
        /\ \E count \in CountSamples :
            lastFrame' = CmdFrame(CommandFrame(devs[d].info, AuthPacketType,
                                               AuthPayload(devs[d]), count))
        /\ UNCHANGED <<ret, attempt, lastKey, lastPlain>>

\* the reply to that authentication command: the returned pair is saved, or
\* the error is returned to the caller
ReauthOutcome(reply, carried) ==
    LET a == AuthenticateReply(devs[cur], reply)
    IN  /\ lastKey' = IF reply.arrived THEN DecryptKey(devs[cur].info) ELSE lastKey
        /\ lastPlain' = IF carried = NoPair THEN <<>>
                        ELSE AuthPlain(carried.id, carried.key)
        /\ CASE a.t = "ok"    -> /\ devs' = [devs EXCEPT ![cur] = a.v]
                                 /\ Return("ok", "")
             [] a.t = "err"   -> /\ Return("err", a.e)
                                 /\ UNCHANGED devs
             [] a.t = "panic" -> /\ Abort(a.e)
                                 /\ UNCHANGED devs
        /\ UNCHANGED <<op, ret, pending, results, cur, attempt, sent, run, got, lastFrame,
                       issued, lastReply, rounds, nops, cin, cout, socks>>

ReauthRecv ==
    /\ pc = "reauth"
    /\ \/ \E p \in AuthPairs :
            ReauthOutcome(Datagram(ReplyFrame(devs[cur].info, 1001,
                                              AuthPlain(p.id, p.key), devs[cur].info.key)), p)
       \/ \E reply \in AuthReplies(devs[cur].info) : ReauthOutcome(reply, NoPair)

\* the same lifecycle, with the public Device::authenticate called again
NextReauth == Next \/ Reauthenticate \/ ReauthRecv

SpecReauth == Init /\ [][NextReauth]_vars

-----------------------------------------------------------------------------
\* The remote sub-codec on its own: a payload is packed and the packed bytes
\* are handed to unpack.

MaxPayloadLen == 3

PayloadBytes == {0, 1, 171}

Payloads == UNION { [1..n -> PayloadBytes] : n \in 0..MaxPayloadLen }

lifecycle == <<pc, op, result, errkind, ret, pending, results, devs, cur, attempt,
               sent, run, got, lastFrame, lastKey, lastPlain, lastReply, issued,
               rounds, nops, socks>>

InitRemoteCodec ==
    /\ Fresh
    /\ cin \in { [t |-> "remote", command |-> c, payload |-> p] :
                   c \in RemoteDataCommand, p \in Payloads }
    /\ cout = NoCall

\* unpack_with_payload(RemoteDataMessage::new(c).pack_with_payload(p))
RemoteRoundTrip ==
    /\ cin.t = "remote" /\ cout = NoCall
    /\ cout' = LET packed == RemotePack(cin.command, cin.payload)
               IN  IF packed.t = "err" THEN packed ELSE RemoteUnpack(packed.v)
    /\ UNCHANGED <<cin, lifecycle>>

NextRemoteCodec == RemoteRoundTrip

SpecRemoteCodec == InitRemoteCodec /\ [][NextRemoteCodec]_vars

-----------------------------------------------------------------------------
\* HVAC data codec (network/hvac_data.rs).

\* bitwise exclusive or of two naturals
RECURSIVE Xor(_, _)
Xor(a, b) ==
    IF a = 0 THEN b
    ELSE IF b = 0 THEN a
    ELSE ((a + b) % 2) + 2 * Xor(a \div 2, b \div 2)

\* n shifts of the reflected CRC register, polynomial 0xA001
RECURSIVE CrcShift(_, _)
CrcShift(crc, n) ==
    IF n = 0 THEN crc
    ELSE CrcShift(IF crc % 2 = 1 THEN Xor(crc \div 2, 40961) ELSE crc \div 2, n - 1)

\* the register after bytes b[i..]
RECURSIVE CrcFrom(_, _, _)
CrcFrom(crc, b, i) ==
    IF i > Len(b) \/ crc < 0 THEN crc ELSE CrcFrom(CrcShift(Xor(crc, b[i]), 8), b, i + 1)

\* network::util::compute_generic_checksum: CRC-16/MODBUS, initial value
\* 0xFFFF, no final exclusive or
compute_generic_checksum(b) == CrcFrom(65535, b, 1)

\* HvacDataCommand: SetState, GetState, GetAcInfo
HvacDataCommand == {0, 1, 2}

HvacHeaderSize == 12

\* HvacDataMessage::new followed by pack(), with the two lengths given
HvacHeader(command_type, payload_length, data_length) ==
    LE16(payload_length) \o LE16(187) \o LE16(32774) \o LE16(0) \o LE16(data_length)
        \o LE16(256 + (((command_type * 16) % 256) + 1))

\* HvacDataMessage::new(command_type).pack_with_payload(payload)
HvacPack(command_type, payload) ==
    IF Len(payload) >= U16 THEN Err("Payload is too long!")
    ELSE IF 2 + Len(payload) >= U16 THEN Panic("attempt to add with overflow")
    ELSE IF 2 + Len(payload) + 10 >= U16
         THEN Err("Could not add the start buffer! Payload is too long")
    ELSE LET data_length == 2 + Len(payload)
             buffer == HvacHeader(command_type, data_length + 10, data_length) \o payload
         IN  Ok(buffer \o LE16(compute_generic_checksum(Slice(buffer, 2, Len(buffer)))))

\* unpack_with_payload returning everything after the magic fields, the two
\* command bytes included
HvacUnpackWithCommand(bytes) ==
    IF Len(bytes) < HvacHeaderSize THEN Panic("range end index 12 out of range for slice")
    ELSE Ok(Slice(bytes, 10, Len(bytes) - 2))

\* HvacDataMessage::unpack_with_payload
HvacUnpack(bytes) ==
    IF Len(bytes) < HvacHeaderSize THEN Panic("range end index 12 out of range for slice")
    ELSE LET payload_length == FromLE16(bytes, 0)
             data_length == FromLE16(bytes, 8)
             real_size == (Len(bytes) - 2) % U16
             crc_offset == payload_length
         IN  IF real_size # payload_length
             THEN Err("Command checksum does not match actual checksum!")
             ELSE IF crc_offset + 1 >= Len(bytes) THEN Panic("index out of bounds")
             ELSE IF FromLE16(bytes, crc_offset)
                       # compute_generic_checksum(Slice(bytes, 2, crc_offset))
                  THEN Err("Data checksum does not match actual checksum!")
             ELSE IF data_length < 2 THEN Panic("attempt to subtract with overflow")
             ELSE IF HvacHeaderSize + (data_length - 2) > Len(bytes)
                  THEN Panic("range end index out of range for slice")
             ELSE Ok(Slice(bytes, HvacHeaderSize, HvacHeaderSize + (data_length - 2)))

-----------------------------------------------------------------------------
\* Wireless provisioning (network/wireless_connection.rs, Device::connect_to_network).

WirelessMessageSize == 136

\* s copied into a zeroed [u8; 32]
Fixed32(s) == [i \in 1..32 |-> IF i <= Len(s) THEN s[i] ELSE 0]

\* WirelessConnectionMessage::pack
WirelessPack(m) ==
    [i \in 1..WirelessMessageSize |->
        LET o == i - 1
        IN  IF o = 32 THEN m.checksum % 256
            ELSE IF o = 33 THEN m.checksum \div 256
            ELSE IF o = 38 THEN m.magic_constant
            ELSE IF o \in 68..99 THEN m.ssid[o - 67]
            ELSE IF o \in 100..131 THEN m.password[o - 99]
            ELSE IF o = 132 THEN m.ssid_length
            ELSE IF o = 133 THEN m.password_length
            ELSE IF o = 134 THEN m.security_mode
            ELSE 0]

\* to_message without the final checksum assignment
to_message_unsummed(network) ==
    LET ssid == network.ssid
        pass == IF network.mode = 0 THEN <<>> ELSE network.pass
    IN  IF Len(ssid) > 32
        THEN Err("Could not use provided SSID! SSID longer than 32 characters.")
        ELSE IF Len(pass) > 32
        THEN Panic("index out of bounds: the len is 32 but the index is 32")
        ELSE Ok([ checksum |-> 0, magic_constant |-> 20,
                  ssid |-> Fixed32(ssid), password |-> Fixed32(pass),
                  ssid_length |-> Len(ssid), password_length |-> Len(pass),
                  security_mode |-> network.mode ])

\* WirelessConnection::to_message: the SSID is checked against 32 bytes, the
\* password is copied into its 32-byte buffer unchecked
to_message(network) ==
    LET ssid == network.ssid
        pass == IF network.mode = 0 THEN <<>> ELSE network.pass
    IN  IF Len(ssid) > 32
        THEN Err("Could not use provided SSID! SSID longer than 32 characters.")
        ELSE IF Len(pass) > 32
        THEN Panic("index out of bounds: the len is 32 but the index is 32")
        ELSE LET msg == [ checksum |-> 0, magic_constant |-> 20,
                          ssid |-> Fixed32(ssid), password |-> Fixed32(pass),
                          ssid_length |-> Len(ssid), password_length |-> Len(pass),
                          security_mode |-> network.mode ]
             IN  Ok([msg EXCEPT !.checksum = checksum(WirelessPack(msg))])

MaxTextLen == 33

\* the longest buffer summed
MaxDataLen == 1000

\* the credentials handed to the library: None(ssid), WEP, WPA1, WPA2 and
\* WPA(ssid, pass), with texts of 0, 9, 32 and more than 32 bytes
WirelessConnections ==
    LET Text(n) == [i \in 1..n |-> 84]
        Lens == {0, 9, 32, MaxTextLen}
    IN  { [t |-> "wireless", mode |-> 0, ssid |-> Text(n), pass |-> <<>>] : n \in Lens }
        \cup { [t |-> "wireless", mode |-> m, ssid |-> Text(n), pass |-> Text(k)] :
                 m \in 1..4, n \in Lens, k \in Lens }

-----------------------------------------------------------------------------
\* Air conditioner state (network/hvac_data.rs, AirCondState). A state is a
\* record of its fields, a bool held as 0 or 1; bits are numbered from the most
\* significant bit of byte 0.

AirCondStateSize == 13

\* the packed_field attributes: field, first bit, last bit
AirCondFields ==
    << [f |-> "power", lo |-> 66, hi |-> 66],
       [f |-> "target_temp_int", lo |-> 0, hi |-> 4],
       [f |-> "swing_v", lo |-> 5, hi |-> 7],
       [f |-> "swing_h", lo |-> 8, hi |-> 10],
       [f |-> "mode", lo |-> 40, hi |-> 42],
       [f |-> "magic1", lo |-> 20, hi |-> 23],
       [f |-> "fanspeed", lo |-> 24, hi |-> 26],
       [f |-> "preset", lo |-> 38, hi |-> 39],
       [f |-> "sleep", lo |-> 45, hi |-> 45],
       [f |-> "ifeel", lo |-> 44, hi |-> 44],
       [f |-> "health", lo |-> 70, hi |-> 70],
       [f |-> "clean", lo |-> 69, hi |-> 69],
       [f |-> "display", lo |-> 83, hi |-> 83],
       [f |-> "mildew", lo |-> 84, hi |-> 84] >>

\* the discriminants of HvacSwVert, HvacSwHoriz, HvacMode, HvacSpeed, HvacPreset
AirCondEnums ==
    [ swing_v |-> {0, 1, 2, 3, 4, 5, 7}, swing_h |-> {2, 7, 6, 5, 0, 1},
      mode |-> {0, 1, 2, 3, 4}, fanspeed |-> {0, 1, 2, 3, 5}, preset |-> {0, 1, 2} ]

\* AirCondState::pack: every field written most significant bit first into its
\* bit range, every other bit zero
AirCondPack(s) ==
    LET BitAt(k) ==
            LET F == { i \in 1..Len(AirCondFields) :
                         AirCondFields[i].lo <= k /\ k <= AirCondFields[i].hi }
            IN  IF F = {} THEN 0
                ELSE LET d == AirCondFields[CHOOSE i \in F : TRUE]
                     IN  (s[d.f] \div (2 ^ (d.hi - k))) % 2
    IN  [n \in 1..AirCondStateSize |->
            LET b == 8 * (n - 1)
            IN  128 * BitAt(b) + 64 * BitAt(b + 1) + 32 * BitAt(b + 2) + 16 * BitAt(b + 3)
                + 8 * BitAt(b + 4) + 4 * BitAt(b + 5) + 2 * BitAt(b + 6) + BitAt(b + 7)]

\* the bits lo..=hi of bytes as an integer, most significant bit first
RECURSIVE BitsOf(_, _, _)
BitsOf(bytes, lo, hi) ==
    IF lo > hi THEN 0
    ELSE 2 * BitsOf(bytes, lo, hi - 1)
         + ((bytes[(hi \div 8) + 1] \div (2 ^ (7 - (hi % 8)))) % 2)

\* AirCondState::unpack_from_slice: the length must be 13 and every enum field
\* must hold one of its discriminants
AirCondUnpack(bytes) ==
    IF Len(bytes) # AirCondStateSize THEN Err("Could not unpack command from bytes!")
    ELSE LET s == [ f \in { AirCondFields[i].f : i \in 1..Len(AirCondFields) } |->
                      LET d == AirCondFields[CHOOSE i \in 1..Len(AirCondFields) :
                                               AirCondFields[i].f = f]
                      IN  BitsOf(bytes, d.lo, d.hi) ]
         IN  IF \E f \in DOMAIN AirCondEnums : s[f] \notin AirCondEnums[f]
             THEN Err("Could not unpack command from bytes!")
             ELSE Ok(s)

\* pack() of the state as it is, magic1 untouched
pack_unprepared(s) == [self |-> s, r |-> Ok(AirCondPack(s))]

\* AirCondState::prepare_and_pack: the state after the call and what it returned
prepare_and_pack(s) ==
    LET self == [s EXCEPT !.magic1 = 15]
    IN  [self |-> self, r |-> Ok(AirCondPack(self))]

\* AirCondState::get_target_temp, in whole degrees
get_target_temp(s) == s.target_temp_int + 8

\* set_target_temp without the range check
set_target_temp_unchecked(s, input) ==
    LET as_u8 == IF input < 0 THEN 0
                 ELSE IF input \div 10 > 255 THEN 255 ELSE input \div 10
    IN  IF as_u8 < 8 THEN [self |-> s, r |-> Panic("attempt to subtract with overflow")]
        ELSE [self |-> [s EXCEPT !.target_temp_int = as_u8 - 8], r |-> Ok(<<>>)]

\* AirCondState::set_target_temp, the input in tenths of a degree: the cast to
\* u8 drops the fraction and saturates
set_target_temp(s, input) ==
    IF input < 160 \/ input > 320
    THEN [self |-> s, r |-> Err("Target temperature is out of range (16-32)")]
    ELSE LET as_u8 == IF input < 0 THEN 0
                      ELSE IF input \div 10 > 255 THEN 255 ELSE input \div 10
         IN  IF as_u8 < 8
             THEN [self |-> s, r |-> Panic("attempt to subtract with overflow")]
             ELSE [self |-> [s EXCEPT !.target_temp_int = as_u8 - 8], r |-> Ok(<<>>)]

\* states whose fields hold enumerated values: the temperature and the swings,
\* then the mode, the fan speed, the preset and the magic value, then the flags
AirCondStates ==
    LET Base == [ power |-> 0, target_temp_int |-> 16, swing_v |-> 0, swing_h |-> 0,
                  mode |-> 0, magic1 |-> 0, fanspeed |-> 0, preset |-> 0, sleep |-> 0,
                  ifeel |-> 0, health |-> 0, clean |-> 0, display |-> 0, mildew |-> 0 ]
    IN  { [Base EXCEPT !.target_temp_int = t, !.swing_v = v, !.swing_h = h] :
            t \in {0, 8, 31}, v \in AirCondEnums.swing_v, h \in AirCondEnums.swing_h }
        \cup { [Base EXCEPT !.mode = m, !.fanspeed = f, !.preset = p, !.magic1 = g] :
                 m \in AirCondEnums.mode, f \in AirCondEnums.fanspeed,
                 p \in AirCondEnums.preset, g \in {0, 10, 15} }
        \cup { [Base EXCEPT !.power = b[1], !.sleep = b[2], !.ifeel = b[3],
                            !.health = b[4], !.clean = b[5], !.display = b[6],
                            !.mildew = b[7], !.magic1 = 5, !.target_temp_int = 31] :
                 b \in [1..7 -> {0, 1}] }

\* temperatures in tenths of a degree, on both sides of 16.0 and of 32.0
Temperatures == {-400, 0, 79, 159, 160, 165, 169, 170, 255, 319, 320, 321, 330, 2560, 3000}

-----------------------------------------------------------------------------
\* Discovery request (network/discovery.rs).

DiscoveryMessageSize == 48

\* the local port of from_ip and list
DiscoveryPort == 42424

\* DiscoveryMessage::pack; the i32 offset from GMT in two's complement
DiscoveryPack(m) ==
    [i \in 1..DiscoveryMessageSize |->
        LET o == i - 1
        IN  CASE o \in 8..9   -> LE16(m.gmt_offset % U16)[o - 7]
              [] o \in 10..11 -> LE16((m.gmt_offset \div U16) % U16)[o - 9]
              [] o \in 12..13 -> LE16(m.year)[o - 11]
              [] o = 14       -> m.minute
              [] o = 15       -> m.hour
              [] o = 16       -> m.year_without_century
              [] o = 17       -> m.day_of_the_week
              [] o = 18       -> m.day_of_the_month
              [] o = 19       -> m.month
              [] o \in 24..27 -> m.local_ip_reversed[o - 23]
              [] o \in 28..29 -> LE16(m.local_port)[o - 27]
              [] o \in 32..33 -> LE16(m.checksum)[o - 31]
              [] o = 38       -> m.magic_constant
              [] OTHER        -> 0]

\* DiscoveryMessage::new with construct_message: time is the local time given
\* or read from the clock, its fields as chrono returns them
DiscoveryNew(addr, port, time) ==
    IF ~addr.v4
    THEN Err("Could not construct DiscoveryMessage! IP address is not IPv4")
    ELSE IF time.year < 0 \/ time.year >= U16
    THEN Err("Could not construct DiscoveryMessage! Year is out of range.")
    ELSE LET msg == [ gmt_offset |-> time.offset, year |-> time.year,
                      minute |-> time.minute, hour |-> time.hour,
                      year_without_century |-> time.year % 100,
                      day_of_the_week |-> time.weekday,
                      day_of_the_month |-> time.day, month |-> time.month,
                      local_ip_reversed |-> [i \in 1..4 |-> addr.octets[5 - i]],
                      local_port |-> port, checksum |-> 0, magic_constant |-> 6 ]
         IN  Ok([msg EXCEPT !.checksum = checksum(DiscoveryPack(msg))])

\* the arguments of DiscoveryMessage::new: local addresses, ports and times
DiscoveryArgs ==
    { [t |-> "discovery", addr |-> a, port |-> p, time |-> d] :
        a \in { [v4 |-> TRUE, octets |-> <<1, 2, 3, 4>>],
                [v4 |-> TRUE, octets |-> <<192, 168, 0, 255>>],
                [v4 |-> FALSE, octets |-> <<>>] },
        p \in {0, DiscoveryPort, 65535},
        d \in { [offset |-> -5, year |-> 2000, month |-> 2, day |-> 14, weekday |-> 1,
                 hour |-> 10, minute |-> 30],
                [offset |-> 3600, year |-> 2026, month |-> 11, day |-> 3, weekday |-> 2,
                 hour |-> 9, minute |-> 5],
                [offset |-> -43200, year |-> 1999, month |-> 12, day |-> 31, weekday |-> 5,
                 hour |-> 23, minute |-> 59],
                [offset |-> 50400, year |-> 70000, month |-> 1, day |-> 1, weekday |-> 7,
                 hour |-> 0, minute |-> 0] } }

\* the arguments of CommandMessage::with_count and pack_with_payload
CommandArgs ==
    { [t |-> "command", header |-> with_count(pt, c, 25755, <<1, 2, 3, 4, 5, 6>>, id),
       payload |-> p, key |-> k] :
        pt \in {AuthPacketType, DataPacketType}, c \in {4660, 65534},
        id \in {U32Zero, IdA, <<171, 239, 205, 171>>},
        p \in {<<>>, <<0, 1, 2, 3, 4, 5, 6, 7, 8, 9>>, [i \in 1..16 |-> 255],
               [i \in 1..17 |-> 17 - i]},
        k \in {INITIAL_KEY, KeyA} }

\* device names: empty, short, of exactly 32 bytes and longer
DeviceNames ==
    { [t |-> "auth", name |-> [i \in 1..n |-> 64 + i]] : n \in {0, 6, 31, 32, 33, 40} }

\* an HVAC reply as a device may send it: the header with the length of what
\* follows and a data_length of the device's choosing, the data, the CRC
HvacReply(data_length, data) ==
    LET buffer == HvacHeader(1, Len(data) + 12, data_length) \o data
    IN  buffer \o LE16(compute_generic_checksum(Slice(buffer, 2, Len(buffer))))

-----------------------------------------------------------------------------
\* Single calls of the entry points that need no device: one call per
\* behaviour, its arguments in cin, what a pure call returned in cout.

InitCalls ==
    /\ Fresh
    /\ cin \in { [t |-> "hvac", command |-> c, payload |-> p] :
                   c \in HvacDataCommand, p \in Payloads }
               \cup WirelessConnections
               \cup { [t |-> "temp", state |-> s, input |-> i] :
                        s \in { a \in AirCondStates : a.swing_v = 7 /\ a.swing_h \in {0, 1} },
                        i \in Temperatures }
               \cup { [t |-> "state", state |-> s] : s \in AirCondStates }
               \cup CommandArgs \cup DeviceNames \cup DiscoveryArgs
               \cup UNION { LET f == pack_with_payload(c.header, c.payload, c.key)
                             IN  { [t |-> "frame", bytes |-> d.bytes, key |-> c.key] :
                                     d \in Damaged(f)
                                            \cup { Datagram(f),
                                                   Datagram(Resum(SubSeq(f, 1, HeaderSize))),
                                                   Datagram(SubSeq(f, 1, HeaderSize - 1)) } } :
                             c \in CommandArgs }
               \cup { [t |-> "checksum", data |-> [i \in 1..n |-> b]] :
                        n \in {0, 1, 2, 66, 300, MaxDataLen}, b \in {0, 1, 255} }
               \cup { [t |-> "with_count", packet_type |-> DataPacketType, count |-> c,
                       device_model_code |-> 25755, mac |-> <<1, 2, 3, 4, 5, 6>>,
                       id |-> IdA] : c \in {0, 1, 4660, 32767, 32768, 65534, 65535} }
               \cup { [t |-> "new", packet_type |-> AuthPacketType,
                       device_model_code |-> 25755, mac |-> <<1, 2, 3, 4, 5, 6>>,
                       id |-> U32Zero] }
               \cup { [c EXCEPT !.t = "envelope"] : c \in {a \in CommandArgs : a.payload # <<>>} }
               \cup { [t |-> "bytes", codec |-> "remote", bytes |-> b] :
                        b \in { <<>>, <<4, 0, 26>>,
                                RemotePlain(4, GetCode, <<>>),
                                RemotePlain(6, GetCode, <<7, 8>>),
                                RemotePlain(9, GetCode, <<7, 8>>),
                                RemotePlain(2, GetCode, <<7, 8>>),
                                RemotePlain(65535, GetCode, <<7, 8>>),
                                RemotePlain(6, 99, <<7, 8>>) } }
               \cup { [t |-> "bytes", codec |-> "hvac", bytes |-> b] :
                        b \in { <<>>, <<14, 0, 187>>, Zeros(12),
                                HvacReply(5, <<1, 2, 3>>),
                                HvacReply(2, <<>>),
                                HvacReply(0, <<>>),
                                HvacReply(1, <<1, 2, 3>>),
                                HvacReply(9, <<1, 2, 3>>),
                                HvacReply(5, <<1, 2, 3>>) \o <<0>>,
                                [HvacReply(5, <<1, 2, 3>>) EXCEPT ![13] = 9] } }
    /\ cout = NoCall

\* unpack_with_payload(HvacDataMessage::new(c).pack_with_payload(p))
HvacRoundTrip ==
    /\ cin.t = "hvac" /\ cout = NoCall
    /\ cout' = LET packed == HvacPack(cin.command, cin.payload)
               IN  [t |-> "hvac", packed |-> packed,
                    unpacked |-> IF packed.t = "ok" THEN HvacUnpack(packed.v) ELSE packed]
    /\ UNCHANGED <<cin, lifecycle>>

\* WirelessConnection::to_message, and pack() of the message it returned
ToMessage ==
    /\ cin.t = "wireless" /\ cout = NoCall /\ pc = "idle" /\ op = "none"
    /\ cout' = LET r == to_message(cin)
               IN  [t |-> "wireless", msg |-> r,
                    packed |-> IF r.t = "ok" THEN WirelessPack(r.v) ELSE <<>>]
    /\ UNCHANGED <<cin, lifecycle>>

\* Device::connect_to_network, up to the receive in send_and_receive_one: the
\* message is built and packed, and the datagram is broadcast
ConnectToNetwork ==
    /\ cin.t = "wireless" /\ cout = NoCall /\ pc = "idle" /\ op = "none"
    /\ op' = "connect_to_network"
    /\ LET msg == to_message(cin)
       IN  IF msg.t = "panic"
           THEN /\ Abort(msg.e)
                /\ UNCHANGED <<sent, lastFrame>>
           ELSE IF msg.t = "err"
           THEN /\ Return("err", "Could not create wireless connection message!")
                /\ UNCHANGED <<sent, lastFrame>>
           ELSE /\ pc' = "connect"
                /\ sent' = <<"Wireless">>
                /\ lastFrame' = [kind |-> "wireless", bytes |-> WirelessPack(msg.v)]
                /\ UNCHANGED <<result, errkind>>
    /\ UNCHANGED <<ret, pending, results, devs, cur, attempt, run, got, lastKey,
                   lastPlain, lastReply, issued, rounds, nops, cin, cout, socks>>

\* a datagram arrives on the socket of connect_to_network: the callback accepts
\* it whatever it holds, and the message is returned
ConnectRecv ==
    /\ pc = "connect"
    /\ Return("ok", "")
    /\ ret' = lastFrame.bytes
    /\ rounds' = rounds + 1
    /\ UNCHANGED <<op, pending, results, devs, cur, attempt, sent, run, got, lastFrame,
                   lastKey, lastPlain, lastReply, issued, nops, cin, cout, socks>>

\* recv_from on the socket of connect_to_network times out:
\* send_and_receive_one returns its error, which connect_to_network passes on
ConnectTimeout ==
    /\ pc = "connect"
    /\ Return("err", "Could not send connection message! No response within timeout!")
    /\ UNCHANGED <<op, ret, pending, results, devs, cur, attempt, sent, run, got,
                   lastFrame, lastKey, lastPlain, lastReply, issued, rounds, nops,
                   cin, cout, socks>>

\* AirCondState::set_target_temp(input), then get_target_temp()
SetTargetTemp ==
    /\ cin.t = "temp" /\ cout = NoCall
    /\ cout' = LET c == set_target_temp(cin.state, cin.input)
               IN  [t |-> "temp", r |-> c.r, self |-> c.self,
                    read |-> get_target_temp(c.self)]
    /\ UNCHANGED <<cin, lifecycle>>

\* unpack_from_slice(s.prepare_and_pack())
StateRoundTrip ==
    /\ cin.t = "state" /\ cout = NoCall
    /\ cout' = LET c == prepare_and_pack(cin.state)
               IN  [t |-> "state", packed |-> c.r, self |-> c.self,
                    unpacked |-> AirCondUnpack(c.r.v)]
    /\ UNCHANGED <<cin, lifecycle>>

\* CommandMessage::pack_with_payload on a header of with_count
PackWithPayload ==
    /\ cin.t = "command" /\ cout = NoCall
    /\ cout' = Ok(pack_with_payload(cin.header, cin.payload, cin.key))
    /\ UNCHANGED <<cin, lifecycle>>

\* AuthenticationMessage::new(name).pack()
AuthenticationPack ==
    /\ cin.t = "auth" /\ cout = NoCall
    /\ cout' = Ok(AuthPack(AuthenticationMessage(cin.name)))
    /\ UNCHANGED <<cin, lifecycle>>

\* DiscoveryMessage::new, and pack() of the message it returned
DiscoveryMessageNew ==
    /\ cin.t = "discovery" /\ cout = NoCall
    /\ cout' = LET r == DiscoveryNew(cin.addr, cin.port, cin.time)
               IN  [t |-> "discovery", msg |-> r,
                    packed |-> IF r.t = "ok" THEN DiscoveryPack(r.v) ELSE <<>>]
    /\ UNCHANGED <<cin, lifecycle>>

\* network::util::checksum(data)
Checksum ==
    /\ cin.t = "checksum" /\ cout = NoCall
    /\ cout' = [t |-> "checksum", v |-> checksum(cin.data)]
    /\ UNCHANGED <<cin, lifecycle>>

\* CommandMessage::unpack_with_payload(bytes, key) on a received frame: whole,
\* cut short, with a checksum that is off, or with a ciphertext that is not
\* whole blocks under a checksum that is right
UnpackWithPayload ==
    /\ cin.t = "frame" /\ cout = NoCall
    /\ cout' = [t |-> "frame", r |-> unpack_with_payload(cin.bytes, cin.key)]
    /\ UNCHANGED <<cin, lifecycle>>

\* CommandMessage::with_count::<T>(count, device_model_code, mac, id)
CommandWithCount ==
    /\ cin.t = "with_count" /\ cout = NoCall
    /\ cout' = [t |-> "header",
                v |-> with_count(cin.packet_type, cin.count, cin.device_model_code,
                                 cin.mac, cin.id)]
    /\ UNCHANGED <<cin, lifecycle>>

\* CommandMessage::new::<T>(device_model_code, mac, id): with_count on a counter
\* drawn from the generator's range
CommandNew ==
    /\ cin.t = "new" /\ cout = NoCall
    /\ \E random_count \in CountRange :
        cout' = [t |-> "header",
                 v |-> with_count(cin.packet_type, random_count, cin.device_model_code,
                                  cin.mac, cin.id)]
    /\ UNCHANGED <<cin, lifecycle>>

\* CommandMessage::unpack_with_payload(h.pack_with_payload(p, k), k)
EnvelopeRoundTrip ==
    /\ cin.t = "envelope" /\ cout = NoCall
    /\ cout' = [t |-> "envelope",
                r |-> unpack_with_payload(
                          pack_with_payload(cin.header, cin.payload, cin.key), cin.key)]
    /\ UNCHANGED <<cin, lifecycle>>

\* RemoteDataMessage::unpack_with_payload(bytes) and
\* HvacDataMessage::unpack_with_payload(bytes) on the bytes of a reply
UnpackBytes ==
    /\ cin.t = "bytes" /\ cout = NoCall
    /\ cout' = [t |-> "bytes",
                r |-> IF cin.codec = "remote" THEN RemoteUnpack(cin.bytes)
                      ELSE HvacUnpack(cin.bytes)]
    /\ UNCHANGED <<cin, lifecycle>>

NextCalls ==
    \/ HvacRoundTrip
    \/ ToMessage
    \/ SetTargetTemp
    \/ StateRoundTrip
    \/ PackWithPayload
    \/ AuthenticationPack
    \/ DiscoveryMessageNew
    \/ Checksum
    \/ UnpackWithPayload
    \/ CommandWithCount
    \/ CommandNew
    \/ EnvelopeRoundTrip
    \/ UnpackBytes
    \/ ConnectToNetwork \/ ConnectRecv \/ ConnectTimeout

SpecCalls == InitCalls /\ [][NextCalls]_vars

-----------------------------------------------------------------------------
\* The transport under concurrent callers (network/util.rs): every call of
\* send_and_receive_one / send_and_receive_many binds a socket of its own in
\* send_and_receive_impl, on the port its caller names (42424 for from_ip and
\* list) or on one the system picks (send_command, connect_to_network), and
\* drops it when it returns. A reply is addressed to the port its request came
\* from and is queued on the socket bound to that port.

MaxCalls == 2

\* the port every message is sent to
DevicePort == 80

\* the ports the system hands out for a bind to port 0
EphemeralPorts == 49152..(49152 + MaxCalls - 1)

BoundPorts == { socks[i].port : i \in { j \in 1..Len(socks) : socks[j].open } }

\* send_and_receive_impl for a new call of caller: bind, then send_to
SendAndReceiveImpl(caller) ==
    /\ Len(socks) < MaxCalls
    /\ IF caller \in {"from_ip", "list"}
       THEN socks' = Append(socks,
                IF DiscoveryPort \in BoundPorts
                THEN [ caller |-> caller, port |-> DiscoveryPort, open |-> FALSE,
                       sends |-> 0, dst |-> DevicePort,
                       queue |-> <<>>, got |-> <<>>, st |-> "panic" ]
                ELSE [ caller |-> caller, port |-> DiscoveryPort, open |-> TRUE,
                       sends |-> 1, dst |-> DevicePort,
                       queue |-> <<>>, got |-> <<>>, st |-> "waiting" ])
       ELSE \E port \in EphemeralPorts \ BoundPorts :
                socks' = Append(socks,
                    [ caller |-> caller, port |-> port, open |-> TRUE,
                      sends |-> 1, dst |-> DevicePort,
                      queue |-> <<>>, got |-> <<>>, st |-> "waiting" ])
    /\ UNCHANGED <<cin, cout, pc, op, result, errkind, ret, pending, results, devs, cur,
                   attempt, sent, run, got, lastFrame, lastKey, lastPlain, lastReply,
                   issued, rounds, nops>>

\* a device answers the datagram of call i: the reply goes to the port the
\* request came from and lands on the socket bound to it
Reply(i) ==
    /\ socks[i].st = "waiting"
    /\ \E j \in 1..Len(socks) :
        /\ socks[j].open /\ socks[j].port = socks[i].port
        /\ Len(socks[j].queue) + Len(socks[j].got) < MaxReplies
        /\ socks' = [socks EXCEPT ![j].queue = Append(@, i)]
    /\ UNCHANGED <<cin, cout, pc, op, result, errkind, ret, pending, results, devs, cur,
                   attempt, sent, run, got, lastFrame, lastKey, lastPlain, lastReply,
                   issued, rounds, nops>>

\* recv_from returns a datagram to call i: send_and_receive_one hands it to the
\* callback and returns (the socket is dropped), send_and_receive_many keeps it
\* and receives again
RecvFrom(i) ==
    /\ socks[i].st = "waiting" /\ socks[i].queue # <<>>
    /\ socks' = IF socks[i].caller = "list"
                THEN [socks EXCEPT ![i].got = Append(@, Head(socks[i].queue)),
                                   ![i].queue = Tail(@)]
                ELSE [socks EXCEPT ![i].got = <<Head(socks[i].queue)>>,
                                   ![i].queue = <<>>, ![i].open = FALSE, ![i].st = "ok"]
    /\ UNCHANGED <<cin, cout, pc, op, result, errkind, ret, pending, results, devs, cur,
                   attempt, sent, run, got, lastFrame, lastKey, lastPlain, lastReply,
                   issued, rounds, nops>>

\* a timeout after which the call sends its message again and waits once more
\* before it gives up
RecvTimeoutResend(i) ==
    /\ socks[i].st = "waiting" /\ socks[i].queue = <<>>
    /\ socks' = IF socks[i].sends < 2
                THEN [socks EXCEPT ![i].sends = @ + 1]
                ELSE [socks EXCEPT ![i].open = FALSE,
                                   ![i].st = IF socks[i].caller = "list" THEN "ok" ELSE "err"]
    /\ UNCHANGED <<cin, cout, pc, op, result, errkind, ret, pending, results, devs, cur,
                   attempt, sent, run, got, lastFrame, lastKey, lastPlain, lastReply,
                   issued, rounds, nops>>

\* recv_from of call i times out: send_and_receive_one returns its error,
\* send_and_receive_many what it has collected
RecvTimeout(i) ==
    /\ socks[i].st = "waiting" /\ socks[i].queue = <<>>
    /\ socks' = [socks EXCEPT ![i].open = FALSE,
                              ![i].st = IF socks[i].caller = "list" THEN "ok" ELSE "err"]
    /\ UNCHANGED <<cin, cout, pc, op, result, errkind, ret, pending, results, devs, cur,
                   attempt, sent, run, got, lastFrame, lastKey, lastPlain, lastReply,
                   issued, rounds, nops>>

NextSockets ==
    \/ \E caller \in {"from_ip", "list", "send_command"} : SendAndReceiveImpl(caller)
    \/ \E i \in 1..Len(socks) : Reply(i)
    \/ \E i \in 1..Len(socks) : RecvFrom(i)
    \/ \E i \in 1..Len(socks) : RecvTimeout(i)

SpecSockets == Init /\ [][NextSockets]_vars

-----------------------------------------------------------------------------
\* Properties.

\* C1: every device from_ip or list has returned (or list is collecting) was
\* built from a discovery reply whose authentication command (packet type
\* 0x0065, sent before the device is handed over) was answered by a well-formed
\* response, whose pair the device holds; when the exchange fails the operation
\* ends without any device returned.
C1_AuthenticatedBeforeReturn ==
    /\ Len(issued) = Len(devs) + Len(results)
    /\ \A i \in 1..Len(devs) :
          /\ issued[i] \in AuthPairs
          /\ devs[i].info.auth_id = issued[i].id /\ devs[i].info.key = issued[i].key
    /\ \A i \in 1..Len(results) :
          /\ issued[i] \in AuthPairs
          /\ results[i].info.auth_id = issued[i].id /\ results[i].info.key = issued[i].key
    /\ op \in {"from_ip", "list"} => Len(devs) + Len(results) + 1 <= Len(sent)
    /\ pc = "auth" =>
          /\ lastFrame.kind = "command"
          /\ HeaderUnpack(lastFrame.bytes).packet_type = AuthPacketType
    /\ (op \in {"from_ip", "list"} /\ result \in {"err", "panic"}) => devs = <<>>

\* list has returned two devices, each after its own authentication exchange
C1_Witness ==
    /\ op = "list" /\ pc = "idle" /\ result = "ok"
    /\ Len(devs) = 2
    /\ sent = <<"Discovery", "Auth", "Auth">>

\* C2: for every device built, key is the initial key exactly when auth_id is 0.
C2_KeyInitialIffIdZero ==
    /\ \A i \in 1..Len(devs) :
          (devs[i].info.key = INITIAL_KEY) <=> (devs[i].info.auth_id = U32Zero)
    /\ \A i \in 1..Len(results) :
          (results[i].info.key = INITIAL_KEY) <=> (results[i].info.auth_id = U32Zero)
    /\ pending # NoDevice =>
          ((pending.info.key = INITIAL_KEY) <=> (pending.info.auth_id = U32Zero))

C5_NeverAborts == pc # "aborted" /\ result # "panic"

\* C6: a well-formed 128-byte discovery reply is classified by its model code:
\* a Remote code builds a Remote device, an HVAC code builds an Hvac device
\* (neither fails as unknown), any other code fails as unknown with no
\* authentication command sent for it.
C6_ClassifiedByModelCode ==
    (/\ lastReply.seen /\ lastReply.bytes_received = DiscoveryReplySize
     /\ lastReply.from_v4 /\ Utf8Ok(lastReply.name)) =>
        LET unknown == result \in {"err", "panic"} /\ errkind = "Unknown device"
        IN  /\ lastReply.model_code \in REMOTE_CODES =>
                  /\ ~unknown
                  /\ pc = "auth" => pending.variant = "Remote"
            /\ lastReply.model_code \in HVAC_CODES =>
                  /\ ~unknown
                  /\ pc = "auth" => pending.variant = "Hvac"
            /\ lastReply.model_code \notin REMOTE_CODES \cup HVAC_CODES =>
                  /\ unknown
                  /\ Len(sent) = 1 + Len(issued)

\* C7: after the first GetCode of learn_ir was answered by a well-formed reply,
\* learn_ir has returned the reply's body (the bytes from offset 6 announced by
\* its length field, payload_length - 4 of them) if that body is not empty,
\* and goes on polling if it is.
C7_ReturnsFirstNonEmptyBody ==
    (/\ op = "learn_ir" /\ sent = <<StartLearningIR, GetCode>> /\ run = 1
     /\ got.t = "ok" /\ lastPlain # <<>>) =>
        LET body == Slice(lastPlain, RemoteHeaderSize, FromLE16(lastPlain, 0) + 2)
        IN  IF body # <<>>
            THEN pc = "idle" /\ result = "ok" /\ ret = body
            ELSE pc = "ir_poll"

\* C8, as stated: a learn_rf that has ended after sending StopRfSweep (which it
\* sends when a polling budget is used up) has failed with FrequencyNotFound if
\* the budget was that of CheckFrequency, with LearnTimeout if it was that of
\* GetCode.
C8_ExhaustionStopsAndFails ==
    (op = "learn_rf" /\ pc \in {"idle", "aborted"}) =>
        /\ sent = <<SweepRfFrequencies, CheckFrequency, StopRfSweep>> =>
              result = "err" /\ errkind = "Could not determine frequency!"
        /\ sent = <<SweepRfFrequencies, CheckFrequency, StartLearningRF, GetCode,
                    StopRfSweep>> =>
              result = "err" /\ errkind = "Could not learn RF code! Operation timed out."

\* C8, amended: when a polling budget of learn_rf is used up (10 CheckFrequency
\* replies with a byte 0 other than 1, or 10 empty GetCode replies) learn_rf
\* does not return before it has sent StopRfSweep, StopRfSweep is the last
\* command it sends, and it never succeeds; it fails with FrequencyNotFound
\* (LearnTimeout) if the StopRfSweep command itself succeeded, and with the
\* error of the cancellation if that command returned an error.
C8_StopThenFail ==
    op = "learn_rf" =>
        /\ pc = "rf_stop_nofreq" =>
              /\ sent = <<SweepRfFrequencies, CheckFrequency>> /\ run = Attempts
              /\ got.t = "ok" /\ got.v[1] # 1
        /\ pc = "rf_stop_timeout" =>
              /\ sent = <<SweepRfFrequencies, CheckFrequency, StartLearningRF, GetCode>>
              /\ run = Attempts /\ got = Ok(<<>>)
        /\ (pc = "idle" /\ got.t = "ok" /\ sent[Len(sent)] # StopRfSweep) =>
              sent[Len(sent)] = GetCode /\ result = "ok" /\ ret # <<>>
        /\ \A i \in 1..Len(sent) : sent[i] = StopRfSweep => i = Len(sent) /\ run = 1
        /\ (pc \in {"idle", "aborted"} /\ sent[Len(sent)] = StopRfSweep) =>
              /\ result # "ok"
              /\ got.t = "ok" =>
                    /\ result = "err"
                    /\ errkind = IF Len(sent) = 3 THEN "Could not determine frequency!"
                                 ELSE "Could not learn RF code! Operation timed out."
              /\ got.t = "err" => result = "err" /\ errkind = "Could not cancel RF sweep!"

\* both budgets used up in turn is not possible in one run; here the first:
\* ten CheckFrequency polls without a lock, StopRfSweep answered, the failure
C8_Witness ==
    /\ op = "learn_rf" /\ pc = "idle"
    /\ sent = <<SweepRfFrequencies, CheckFrequency, StopRfSweep>>
    /\ got.t = "ok"
    /\ result = "err" /\ errkind = "Could not determine frequency!"

\* C9: the commands of a run of learn_rf are a prefix of: SweepRfFrequencies,
\* 1 to 10 CheckFrequency, StartLearningRF, 1 to 10 GetCode (StopRfSweep may
\* end the run after either loop); StartLearningRF is sent only right after a
\* CheckFrequency reply whose byte 0 is 1, and after such a reply no further
\* CheckFrequency is sent.
C9_CommandOrder ==
    /\ [](op = "learn_rf" =>
            /\ sent \in { <<SweepRfFrequencies>>,
                           <<SweepRfFrequencies, CheckFrequency>>,
                           <<SweepRfFrequencies, CheckFrequency, StopRfSweep>>,
                           <<SweepRfFrequencies, CheckFrequency, StartLearningRF>>,
                           <<SweepRfFrequencies, CheckFrequency, StartLearningRF, GetCode>>,
                           <<SweepRfFrequencies, CheckFrequency, StartLearningRF, GetCode,
                             StopRfSweep>> }
            /\ run >= 1 /\ run <= Attempts
            /\ sent[Len(sent)] \notin {CheckFrequency, GetCode} => run = 1)
    /\ [][(op' = "learn_rf" /\ Len(sent') = 3 /\ sent'[3] = StartLearningRF
             /\ Len(sent) = 2) =>
               /\ got.t = "ok" /\ got.v[1] = 1
               /\ lastPlain[RemoteHeaderSize + 1] = 1]_vars
    /\ [][(op = "learn_rf" /\ sent = <<SweepRfFrequencies, CheckFrequency>>
             /\ got.t = "ok" /\ got.v # <<>> /\ got.v[1] = 1) => run' = 1]_vars

\* a run of learn_rf that locked at its third CheckFrequency and is polling
\* for the code
C9_Witness ==
    /\ op = "learn_rf" /\ pc = "rf_code"
    /\ sent = <<SweepRfFrequencies, CheckFrequency, StartLearningRF, GetCode>>
    /\ run = 3

\* C10: unpacking what pack produced for payload p returns exactly p.
C10_RemoteRoundTrip ==
    (cin.t = "remote" /\ cout # NoCall) => cout = Ok(cin.payload)
C13_TooLongIsAnError ==
    (cin.t = "wireless" /\ cout # NoCall) =>
        IF Len(cin.ssid) > 32 \/ Len(cin.pass) > 32
        THEN cout.msg.t = "err"
        ELSE cout.msg.t = "ok"

\* C12: connect_to_network succeeds once it has broadcast the wireless-join
\* datagram, whether or not a datagram is ever received in reply: it never
\* returns an error for lack of one.
C12_NeverFailsForLackOfReply ==
    (op = "connect_to_network" /\ sent = <<"Wireless">> /\ pc = "idle") => result = "ok"

\* C14: with several operations in flight, each receives only datagrams
\* addressed to its own socket, in reply to its own request, and none fails
\* because another one is in progress.
C14_NoInterference ==
    \A i \in 1..Len(socks) :
        /\ socks[i].st # "panic"
        /\ \A k \in 1..Len(socks[i].got) : socks[i].got[k] = i

\* C15: the list Device::list returns never holds two devices with the same
\* MAC: several discovery replies with one MAC yield exactly one device.
C15_NoDuplicateMac ==
    (op = "list" /\ pc = "idle" /\ result = "ok") =>
        \A i, j \in 1..Len(devs) :
            i # j => devs[i].info.mac # devs[j].info.mac

\* C16: for every t in [16.0, 32.0], set_target_temp(t) succeeds and
\* get_target_temp() then returns floor(t); for every t below 16.0 or above
\* 32.0 it fails with InvalidTemperature and the stored target temperature is
\* unchanged.
C16_TargetTemp ==
    (cin.t = "temp" /\ cout # NoCall) =>
        IF 160 <= cin.input /\ cin.input <= 320
        THEN /\ cout.r.t = "ok"
             /\ cout.read = cin.input \div 10
        ELSE /\ cout.r = Err("Target temperature is out of range (16-32)")
             /\ cout.self = cin.state
             /\ cout.read = get_target_temp(cin.state)

C16_Witness ==
    /\ cin.t = "temp" /\ cout # NoCall
    /\ cin.input = 165 /\ cin.state.target_temp_int = 0
    /\ cout.r.t = "ok" /\ cout.read = 16

\* C17: for every state s with enumerated field values, unpacking the 13 bytes
\* of s.prepare_and_pack() yields the same value for every semantic field, and
\* bits 20..=23 of the packed bytes are 0x0F whatever magic value s held.
C17_StateRoundTrip ==
    (cin.t = "state" /\ cout # NoCall) =>
        /\ cout.packed.t = "ok"
        /\ Len(cout.packed.v) = AirCondStateSize
        /\ cout.packed.v[3] % 16 = 15
        /\ cout.unpacked.t = "ok"
        /\ \A f \in DOMAIN cin.state \ {"magic1"} : cout.unpacked.v[f] = cin.state[f]

C17_Witness ==
    /\ cin.t = "state" /\ cout # NoCall
    /\ cin.state.magic1 = 5 /\ cin.state.mildew = 1 /\ cin.state.power = 1
    /\ cout.unpacked.t = "ok" /\ cout.unpacked.v.mildew = 1
    /\ cout.packed.v[3] % 16 = 15

\* C18: the frame pack_with_payload produces is the 0x38-byte header followed
\* by the ciphertext of the zero-padded payload; its field at 0x34 is the
\* envelope checksum of the cleartext payload and its field at 0x20 the
\* envelope checksum of the whole frame taken with bytes 0x20..0x22 zero.
C18_EnvelopeChecksums ==
    (cin.t = "command" /\ cout # NoCall) =>
        /\ cout.t = "ok"
        /\ LET frame  == cout.v
               zeroed == [frame EXCEPT ![33] = 0, ![34] = 0]
               cipher == CbcEncrypt(cin.key, INITIAL_VECTOR, PadZeros(cin.payload))
           IN  /\ Len(frame) = HeaderSize + Len(PadZeros(cin.payload))
               /\ SubSeq(frame, HeaderSize + 1, Len(frame)) = cipher
               /\ FromLE16(frame, 52) = (48815 + SumBytes(cin.payload)) % U16
               /\ FromLE16(frame, 32) = (48815 + SumBytes(zeroed)) % U16
               /\ SubSeq(zeroed, 1, HeaderSize)
                    = HeaderPack([cin.header EXCEPT
                                    !.payload_checksum = FromLE16(frame, 52)])

C18_Witness ==
    /\ cin.t = "command" /\ cout # NoCall
    /\ Len(cin.payload) = 17 /\ cin.key = KeyA
    /\ Len(cout.v) = HeaderSize + 32
    /\ FromLE16(cout.v, 32) # 0

\* C19: AuthenticationMessage::new(name).pack() is 0x50 bytes: 0x31 at offsets
\* 0x04..0x13, 0x01 at 0x1E and 0x2D, the first min(len(name), 32) bytes of the
\* name from 0x30, NUL up to 0x4F, zero elsewhere; a longer name is truncated.
C19_AuthLayout ==
    (cin.t = "auth" /\ cout # NoCall) =>
        /\ cout.t = "ok"
        /\ Len(cout.v) = 80
        /\ \A o \in 0..79 :
              cout.v[o + 1] =
                  IF o \in 4..19 THEN 49
                  ELSE IF o = 30 \/ o = 45 THEN 1
                  ELSE IF o >= 48 /\ o - 48 < Len(cin.name) THEN cin.name[o - 47]
                  ELSE 0

C19_Witness ==
    /\ cin.t = "auth" /\ cout # NoCall
    /\ Len(cin.name) > 32
    /\ cout.t = "ok" /\ cout.v[80] = cin.name[32]

\* C20: for every message DiscoveryMessage::new or WirelessConnection::to_message
\* returns, bytes 32..33 of pack() hold, little-endian, the envelope checksum of
\* the packed bytes taken with those two bytes zero.
C20_ChecksumField ==
    (cin.t \in {"discovery", "wireless"} /\ cout # NoCall /\ cout.msg.t = "ok") =>
        LET zeroed == [cout.packed EXCEPT ![33] = 0, ![34] = 0]
        IN  /\ cout.packed = [zeroed EXCEPT ![33] = ((48815 + SumBytes(zeroed)) % U16) % 256,
                                            ![34] = ((48815 + SumBytes(zeroed)) % U16) \div 256]
            /\ FromLE16(cout.packed, 32) = cout.msg.v.checksum

C20_Witness ==
    /\ cin.t = "wireless" /\ cout # NoCall /\ cout.msg.t = "ok"
    /\ Len(cin.ssid) = 32 /\ Len(cin.pass) = 32 /\ cin.mode = 4
    /\ FromLE16(cout.packed, 32) > 48815

\* C21: checksum(d) is (0xBEAF + the sum of the bytes of d) modulo 2^16, also
\* when the sum exceeds 16 bits; checksum of the empty sequence is 0xBEAF and
\* checksum([0x01]) is 0xBEB0. (The buffers summed hold one byte value
\* repeated, so the sum of the bytes is the length times that value.)
C21_Checksum ==
    (cin.t = "checksum" /\ cout # NoCall) =>
        /\ cout.v = IF cin.data = <<>> THEN 48815
                    ELSE (48815 + Len(cin.data) * cin.data[1]) % 65536
        /\ cin.data = <<1>> => cout.v = 48816

C21_Witness ==
    /\ cin.t = "checksum" /\ cout # NoCall
    /\ Len(cin.data) = 300 /\ cin.data[300] = 255
    /\ cout.v = 59779

\* C22: unpack_with_payload returns an error whenever the frame is shorter than
\* 0x38 bytes or the value stored at 0x20 differs from the envelope checksum of
\* the frame taken with bytes 0x20 and 0x21 zero, and in every other case
\* returns the decryption of the bytes from offset 0x38 on.
C22_ErrorOrDecryption ==
    (cin.t = "frame" /\ cout # NoCall) =>
        IF Len(cin.bytes) < 56
        THEN cout.r.t = "err"
        ELSE LET zeroed == [cin.bytes EXCEPT ![33] = 0, ![34] = 0]
             IN  IF FromLE16(cin.bytes, 32) # (48815 + SumBytes(zeroed)) % 65536
                 THEN cout.r.t = "err"
                 ELSE cout.r.t = "ok"

C24_ShortReplyRejected ==
    [][(pc = "discover" /\ rounds' = rounds + 1
            /\ lastReply'.bytes_received # 128) =>
        /\ pc' # "auth"
        /\ sent' = sent
        /\ lastFrame' = lastFrame
        /\ pending' = pending
        /\ devs' = devs
        /\ results' = results]_vars

C24_Witness ==
    /\ op \in {"from_ip", "list"}
    /\ lastReply.seen /\ lastReply.bytes_received = 48
    /\ lastReply.model_code \in REMOTE_CODES
    /\ pc = "aborted"
    /\ \A k \in 1..Len(sent) : sent[k] # "Auth"

\* C25: every CommandMessage built by new or with_count has bit 0x8000 set in
\* its counter, and the counters that new can produce are exactly 0x8000..0xFFFF,
\* both ends included.
C25_CounterRange ==
    /\ cout.t = "header" => cout.v.count \in 32768..65535
    /\ (cin.t = "new" /\ cout.t = "header") =>
        { with_count(cin.packet_type, random_count, cin.device_model_code,
                     cin.mac, cin.id).count : random_count \in CountRange }
            = 32768..65535

\* C26: whenever learn_rf returns an error after its sweep was started (the
\* poll budget used up, or a CheckFrequency, StartLearningRF or GetCode command
\* that fails), a StopRfSweep command was sent after SweepRfFrequencies and
\* before the return.
C26_SweepStopped ==
    (op = "learn_rf" /\ pc = "idle" /\ result = "err"
        /\ Len(sent) >= 2 /\ sent[1] = SweepRfFrequencies) =>
        \E k \in 2..Len(sent) : sent[k] = StopRfSweep

\* C27: the command envelope round-trips payloads exactly: for every non-empty
\* payload p, one that ends in 0x00 included, and every 16-byte key k,
\* unpack_with_payload(pack_with_payload(p, k), k) returns p, of the same length.
C27_EnvelopeRoundTrip ==
    (cin.t = "envelope" /\ cout.t = "envelope") =>
        /\ cout.r.t = "ok"
        /\ cout.r.v = cin.payload
        /\ Len(cout.r.v) = Len(cin.payload)

\* C28: Device::authenticate succeeds and stores the returned pair for every
\* auth-id and every 16-byte session key that a well-formed authentication
\* response carries, a key whose last byte is 0x00 included.
C28_AuthenticateStoresPair ==
    [][(pc = "auth" /\ Len(lastPlain') = AuthResponseSize) =>
        LET created == IF op = "from_ip" THEN devs' ELSE results'
        IN  /\ pc' # "aborted"
            /\ created # <<>>
            /\ created[Len(created)].info.auth_id = SubSeq(lastPlain', 1, 4)
            /\ created[Len(created)].info.key = SubSeq(lastPlain', 5, 20)]_vars

\* C29: in the frequency phase of learn_rf a CheckFrequency reply without a body
\* (a decrypted reply shorter than 6 bytes, unpacked to the empty sequence)
\* counts as not locked: learn_rf goes on to the next poll or to the exit for
\* the used-up budget, and does not abort.
C29_EmptyReplyNotLocked ==
    [][(pc = "rf_check" /\ got'.t = "ok" /\ got'.v = <<>>) =>
        /\ pc' \in {"rf_check", "rf_stop_nofreq"}
        /\ result' # "panic"]_vars

\* C30: RemoteDataMessage::unpack_with_payload and
\* HvacDataMessage::unpack_with_payload return a body or an error value for
\* every input byte sequence: they never read outside the buffer and never
\* overflow a length computation.
C30_BodyOrError ==
    (cin.t = "bytes" /\ cout.t = "bytes") => cout.r.t \in {"ok", "err"}

====
